---- MODULE Spec2Model ----
(***************************************************************************)
(* Model of the allocation/layout core of cpp-cache-optimized-structures:  *)
(*   src/Vector_allocation_benhmarks/vector-allocation-benchmarks.cpp      *)
(*     PoolAllocator<T>, ChunkedVector<T, CHUNK_SIZE>,                     *)
(*     ChunkedVectorPoolAllocation<T, CHUNK_SIZE>                          *)
(*   src/AoS-SoA/aos_vs_soa.cpp                                            *)
(*     the initialisation loops of benchmarkAoS and benchmarkSoA           *)
(*                                                                         *)
(* The specifications of the module:                                       *)
(*   Spec         one chunked sequence (plain or pool-backed): push_back,  *)
(*                operator[], get_size and the destructor;                 *)
(*   SpecPool     one PoolAllocator driven directly: allocate(n) for       *)
(*                arbitrary n, and the destructor;                         *)
(*   SpecLayout   the two particle initialisation loops;                   *)
(*   SpecBench    the three benchmark drivers of the vector file;          *)
(*   SpecDefault  the pool-backed sequence with CHUNK_SIZE = 64 and        *)
(*                capacity 2048, as the source instantiates it;            *)
(*   SpecAnyChunk the pool-backed sequence with other CHUNK_SIZE;          *)
(*   SpecCopy     two objects of one class and compiler-generated copies.  *)
(*                                                                         *)
(* The heap is a sequence of blocks, one per `new T[n]`; a pointer T* is a *)
(* pair (block, element offset).  size_t arithmetic is modulo 2^SizeBits.  *)
(* The source instantiates CHUNK_SIZE = 64 and the embedded allocator with *)
(* capacity 2048; Spec draws scaled-down instantiations with               *)
(* CHUNK_SIZE <= capacity so that chunk and buffer boundaries are crossed  *)
(* within a few appends.                                                   *)
(***************************************************************************)
EXTENDS Integers, Sequences, FiniteSets, TLC

\* ---------------------------------------------------------------- bounds
MaxChunk == 3
\* largest CHUNK_SIZE instantiated in Spec
MaxPoolCap == 4
\* largest capacity of the embedded allocator in Spec
MaxPush == 5
\* number of push_back calls explored in Spec
MaxCap == 3
\* largest constructor argument of the allocator in SpecPool
MaxReq == 4
\* requests n in SpecPool: 0..MaxReq and the MaxReq largest size_t values
MaxAllocs == 3
\* number of allocate calls explored in SpecPool
SizeBits == 13
\* width of size_t in the model
MaxN == 6
\* largest particle count in SpecLayout

SizeMod == 2 ^ SizeBits
\* values of T that push_back is called with
Values == {0, 1}
ChunkSizes == 1 .. MaxChunk
Requests == (0 .. MaxReq) \cup ((SizeMod - MaxReq) .. (SizeMod - 1))

VARIABLES
    kind,        \* which class the object under test instantiates
    CHUNK_SIZE,  \* template parameter of the chunked sequence
    chunks,      \* std::vector<T*> chunks
    size,        \* size_t size
    allocator,   \* PoolAllocator: [buffers, capacity, offset]
    heap,        \* blocks obtained from new T[n], in allocation order
    mem,         \* element values written so far, by address
    alive,       \* FALSE once the object's destructor has run
    op,          \* the operation that ran last, with its argument
    ret,         \* what the last operation returned
    pushed,      \* arguments of the push_back calls so far, in call order
    carves,      \* results of the allocate calls so far: [ptr, n]
    nParticles,  \* n: the particle count both layout benchmarks are called with
    particlesAoS,\* std::vector<ParticleAos> particles of benchmarkAoS
    rngAoS,      \* the generator of benchmarkAoS
    iAoS,        \* loop variable of the initialisation loop of benchmarkAoS
    particlesSoA,\* ParticlesSoA particles of benchmarkSoA
    rngSoA,      \* the generator of benchmarkSoA
    iSoA,        \* loop variable of the initialisation loop of benchmarkSoA
    bench,       \* which benchmark driver of the vector file is running
    benchN,      \* its parameter n
    repeat,      \* its parameter repeat
    bi,          \* its outer loop variable i
    bk,          \* its inner loop variable k
    bpc,         \* where the driver is: "loop", "append", "scan", "done"
    readCount,   \* per index, the reads the current scan made of it (2: several)
    oobRead,     \* a scan read an index at or beyond the container's length
    second       \* a second object of the same class: [made, alive, chunks,
                 \* size, allocator]

coreVars == <<kind, CHUNK_SIZE, chunks, size, allocator, heap, mem, alive,
              op, ret, pushed, carves>>
layoutVars == <<nParticles, particlesAoS, rngAoS, iAoS, particlesSoA, rngSoA, iSoA>>
benchVars == <<bench, benchN, repeat, bi, bk, bpc, readCount, oobRead>>
copyVars == <<second>>
vars == <<coreVars, layoutVars, benchVars, copyVars>>

\* ------------------------------------------------------------- the heap
NullPtr == [blk |-> 0, off |-> 0]
Ptr(b, o) == [blk |-> b, off |-> o]
\* p + k on a T*
PtrAdd(p, k) == [blk |-> p.blk, off |-> p.off + k]

\* new T[n]: the heap after the allocation, and the pointer it returns
NewArray(h, n) == Append(h, [len |-> n, frees |-> 0, bad |-> 0])
NewPtr(h) == Ptr(Len(h) + 1, 0)

\* delete[] p: releases the block p is the start of; a pointer into the middle
\* of a block is not something new T[] returned, recorded as a bad free
DeleteArray(h, p) ==
    IF p.off = 0
    THEN [h EXCEPT ![p.blk].frees = @ + 1]
    ELSE [h EXCEPT ![p.blk].bad = @ + 1]

RECURSIVE DeleteAll(_, _)
\* for (auto p : ptrs) delete[] p;
DeleteAll(h, ptrs) ==
    IF ptrs = <<>> THEN h
    ELSE DeleteAll(DeleteArray(h, Head(ptrs)), Tail(ptrs))

\* p[k] = v
Store(m, a, v) == [x \in (DOMAIN m) \cup {a} |-> IF x = a THEN v ELSE m[x]]
\* the values a read of address a can yield: the value stored, or any value
\* when nothing was stored there (new T[n] leaves the elements uninitialised)
Loads(m, a) == IF a \in DOMAIN m THEN {m[a]} ELSE Values

\* --------------------------------------------------------- PoolAllocator
\* PoolAllocator(cap): capacity(cap), offset(0), one buffer preallocated
PoolAllocatorCtor(h, cap) ==
    [alloc |-> [buffers |-> <<NewPtr(h)>>, capacity |-> cap, offset |-> 0],
     heap  |-> NewArray(h, cap)]

NoAllocator == [buffers |-> <<>>, capacity |-> 0, offset |-> 0]

\* allocate without `offset += n`: every carve of a buffer starts at the same place
allocate_noadvance(a, h, n) ==
    LET grow == ((a.offset + n) % SizeMod) > a.capacity
        h1   == IF grow THEN NewArray(h, a.capacity) ELSE h
        bufs == IF grow THEN Append(a.buffers, NewPtr(h)) ELSE a.buffers
        off0 == IF grow THEN 0 ELSE a.offset
    IN  [alloc |-> [buffers |-> bufs, capacity |-> a.capacity, offset |-> off0],
         heap  |-> h1,
         ptr   |-> PtrAdd(bufs[Len(bufs)], off0)]

\* allocate without `offset = 0` after taking a new buffer
allocate_noreset(a, h, n) ==
    LET grow == ((a.offset + n) % SizeMod) > a.capacity
        h1   == IF grow THEN NewArray(h, a.capacity) ELSE h
        bufs == IF grow THEN Append(a.buffers, NewPtr(h)) ELSE a.buffers
    IN  [alloc |-> [buffers  |-> bufs,
                    capacity |-> a.capacity,
                    offset   |-> (a.offset + n) % SizeMod],
         heap  |-> h1,
         ptr   |-> PtrAdd(bufs[Len(bufs)], a.offset)]

\* allocate that rejects a request larger than capacity and returns nullptr
allocate_checked(a, h, n) ==
    LET grow == ((a.offset + n) % SizeMod) > a.capacity
        h1   == IF grow THEN NewArray(h, a.capacity) ELSE h
        bufs == IF grow THEN Append(a.buffers, NewPtr(h)) ELSE a.buffers
        off0 == IF grow THEN 0 ELSE a.offset
    IN  IF n > a.capacity
        THEN [alloc |-> a, heap |-> h, ptr |-> NullPtr]
        ELSE [alloc |-> [buffers  |-> bufs,
                         capacity |-> a.capacity,
                         offset   |-> (off0 + n) % SizeMod],
              heap  |-> h1,
              ptr   |-> PtrAdd(bufs[Len(bufs)], off0)]

\* allocate that overwrites buffers.back() with the new buffer instead of
\* appending it
allocate_replace(a, h, n) ==
    LET grow == ((a.offset + n) % SizeMod) > a.capacity
        h1   == IF grow THEN NewArray(h, a.capacity) ELSE h
        bufs == IF grow THEN [a.buffers EXCEPT ![Len(a.buffers)] = NewPtr(h)]
                ELSE a.buffers
        off0 == IF grow THEN 0 ELSE a.offset
    IN  [alloc |-> [buffers  |-> bufs,
                    capacity |-> a.capacity,
                    offset   |-> (off0 + n) % SizeMod],
         heap  |-> h1,
         ptr   |-> PtrAdd(bufs[Len(bufs)], off0)]

\* allocate whose test is `offset + n >= capacity`: a request that would fill
\* the buffer exactly is sent to a new one
allocate_ge(a, h, n) ==
    LET grow == ((a.offset + n) % SizeMod) >= a.capacity
        h1   == IF grow THEN NewArray(h, a.capacity) ELSE h
        bufs == IF grow THEN Append(a.buffers, NewPtr(h)) ELSE a.buffers
        off0 == IF grow THEN 0 ELSE a.offset
    IN  [alloc |-> [buffers  |-> bufs,
                    capacity |-> a.capacity,
                    offset   |-> (off0 + n) % SizeMod],
         heap  |-> h1,
         ptr   |-> PtrAdd(bufs[Len(bufs)], off0)]

\* T* allocate(size_t n): the allocator and heap afterwards, and the pointer
allocate(a, h, n) ==
    LET grow == ((a.offset + n) % SizeMod) > a.capacity
        h1   == IF grow THEN NewArray(h, a.capacity) ELSE h
        bufs == IF grow THEN Append(a.buffers, NewPtr(h)) ELSE a.buffers
        off0 == IF grow THEN 0 ELSE a.offset
    IN  [alloc |-> [buffers  |-> bufs,
                    capacity |-> a.capacity,
                    offset   |-> (off0 + n) % SizeMod],
         heap  |-> h1,
         ptr   |-> PtrAdd(bufs[Len(bufs)], off0)]

\* ~PoolAllocator(): delete[] every buffer
PoolAllocatorDtor(h, a) == DeleteAll(h, a.buffers)

\* ------------------------------------------------------ chunked sequences
\* address of chunks[index / CHUNK_SIZE][index % CHUNK_SIZE]
ElemAddr(cs, index) ==
    PtrAdd(cs[(index \div CHUNK_SIZE) + 1], index % CHUNK_SIZE)

\* push_back that takes a new chunk on every call
PlainPush_always(value) ==
    /\ heap' = NewArray(heap, CHUNK_SIZE)
    /\ chunks' = Append(chunks, NewPtr(heap))
    /\ mem' = Store(mem, PtrAdd(NewPtr(heap), size % CHUNK_SIZE), value)
    /\ size' = (size + 1) % SizeMod
    /\ UNCHANGED <<allocator, carves>>

\* ChunkedVector::push_back(value)
PlainPush(value) ==
    LET grow == size % CHUNK_SIZE = 0
        h1   == IF grow THEN NewArray(heap, CHUNK_SIZE) ELSE heap
        cs   == IF grow THEN Append(chunks, NewPtr(heap)) ELSE chunks
    IN  /\ heap' = h1
        /\ chunks' = cs
        /\ mem' = Store(mem, ElemAddr(cs, size), value)
        /\ size' = (size + 1) % SizeMod
        /\ UNCHANGED <<allocator, carves>>

\* ChunkedVectorPoolAllocation::push_back(value)
PooledPush(value) ==
    LET grow == size % CHUNK_SIZE = 0
        r    == allocate(allocator, heap, CHUNK_SIZE)
        cs   == IF grow THEN Append(chunks, r.ptr) ELSE chunks
    IN  /\ heap' = IF grow THEN r.heap ELSE heap
        /\ allocator' = IF grow THEN r.alloc ELSE allocator
        /\ carves' = IF grow THEN Append(carves, [ptr |-> r.ptr, n |-> CHUNK_SIZE])
                     ELSE carves
        /\ chunks' = cs
        /\ mem' = Store(mem, ElemAddr(cs, size), value)
        /\ size' = (size + 1) % SizeMod

\* push_back on the object under test
push_back(value) ==
    /\ alive
    /\ Len(pushed) < MaxPush
    /\ IF kind = "plain" THEN PlainPush(value) ELSE PooledPush(value)
    /\ pushed' = Append(pushed, value)
    /\ op' = [name |-> "push_back", arg |-> value]
    /\ ret' = "void"
    /\ UNCHANGED <<kind, CHUNK_SIZE, alive, layoutVars, benchVars, copyVars>>

\* operator[] that value-initialises the element it hands out
SubscriptEffect_init(index) ==
    /\ mem' = Store(mem, ElemAddr(chunks, index), 0)
    /\ UNCHANGED <<chunks, size, allocator, heap>>

\* what operator[](index) does to the object: nothing, in both classes
SubscriptEffect(index) == UNCHANGED <<chunks, size, allocator, heap, mem>>

\* T& operator[](index), read through once; called with index < size only
\* (an index at or beyond size is outside the contract)
Subscript(index) ==
    /\ alive
    /\ index < size
    /\ SubscriptEffect(index)
    /\ ret' \in Loads(mem, ElemAddr(chunks, index))
    /\ op' = [name |-> "operator[]", arg |-> index]
    /\ UNCHANGED <<kind, CHUNK_SIZE, alive, pushed, carves, layoutVars, benchVars, copyVars>>

\* size_t get_size() const
get_size ==
    /\ alive
    /\ ret' = size
    /\ op' = [name |-> "get_size", arg |-> 0]
    /\ UNCHANGED <<kind, CHUNK_SIZE, chunks, size, allocator, heap, mem, alive,
                   pushed, carves, layoutVars, benchVars, copyVars>>

\* ~ChunkedVector(): delete[] every chunk
PlainDtor(h) == DeleteAll(h, chunks)

\* a pool-backed destructor that also deletes its chunks, as the plain one does
PooledDtor_chunks(h) == PoolAllocatorDtor(DeleteAll(h, chunks), allocator)

\* ~ChunkedVectorPoolAllocation(), compiler-generated: the members are
\* destroyed; only the allocator member has a destructor that frees anything
PooledDtor(h) == PoolAllocatorDtor(h, allocator)

\* the object under test goes out of scope
Destroy ==
    /\ alive
    /\ heap' = IF kind = "plain" THEN PlainDtor(heap) ELSE PooledDtor(heap)
    /\ alive' = FALSE
    /\ op' = [name |-> "destroy", arg |-> 0]
    /\ ret' = "void"
    /\ UNCHANGED <<kind, CHUNK_SIZE, chunks, size, allocator, mem, pushed, carves,
                   layoutVars, benchVars, copyVars>>

\* no benchmark driver of the vector file is running
BenchIdle ==
    /\ bench = "none"
    /\ benchN = 0
    /\ repeat = 0
    /\ bi = 0
    /\ bk = 0
    /\ bpc = "done"
    /\ readCount = <<>>
    /\ oobRead = FALSE

NoObject == [made |-> FALSE, alive |-> FALSE, chunks |-> <<>>, size |-> 0,
             allocator |-> NoAllocator]

\* there is no second object
CopyIdle == second = NoObject

\* the layout benchmarks are not running
LayoutIdle ==
    /\ nParticles = 0
    /\ particlesAoS = <<>>
    /\ rngAoS = 0
    /\ iAoS = 0
    /\ particlesSoA = [x |-> <<>>, y |-> <<>>, z |-> <<>>, mass |-> <<>>]
    /\ rngSoA = 0
    /\ iSoA = 0

\* a freshly constructed ChunkedVector<T, c>
InitPlain ==
    /\ kind = "plain"
    /\ CHUNK_SIZE \in ChunkSizes
    /\ allocator = NoAllocator
    /\ heap = <<>>

\* a freshly constructed ChunkedVectorPoolAllocation<T, c>: its allocator
\* member is constructed with a capacity that holds at least one chunk
InitPooled ==
    /\ kind = "pooled"
    /\ CHUNK_SIZE \in ChunkSizes
    /\ \E cap \in CHUNK_SIZE .. MaxPoolCap :
          /\ allocator = PoolAllocatorCtor(<<>>, cap).alloc
          /\ heap = PoolAllocatorCtor(<<>>, cap).heap

Init ==
    /\ InitPlain \/ InitPooled
    /\ chunks = <<>>
    /\ size = 0
    /\ mem = <<>>
    /\ alive = TRUE
    /\ op = [name |-> "construct", arg |-> 0]
    /\ ret = "void"
    /\ pushed = <<>>
    /\ carves = <<>>
    /\ LayoutIdle
    /\ BenchIdle
    /\ CopyIdle

Next ==
    \/ \E value \in Values : push_back(value)
    \/ \E index \in 0 .. (MaxPush - 1) : Subscript(index)
    \/ get_size
    \/ Destroy

Spec == Init /\ [][Next]_vars

\* ------------------------------------------- PoolAllocator driven directly
\* allocator.allocate(n) called by a client
Allocate(n) ==
    /\ alive
    /\ Len(carves) < MaxAllocs
    /\ LET r == allocate(allocator, heap, n)
       IN  /\ allocator' = r.alloc
           /\ heap' = r.heap
           /\ ret' = r.ptr
           /\ carves' = Append(carves, [ptr |-> r.ptr, n |-> n])
    /\ op' = [name |-> "allocate", arg |-> n]
    /\ UNCHANGED <<kind, CHUNK_SIZE, chunks, size, mem, alive, pushed, layoutVars, benchVars, copyVars>>

\* the allocator goes out of scope
DestroyPool ==
    /\ alive
    /\ heap' = PoolAllocatorDtor(heap, allocator)
    /\ alive' = FALSE
    /\ op' = [name |-> "destroy", arg |-> 0]
    /\ ret' = "void"
    /\ UNCHANGED <<kind, CHUNK_SIZE, chunks, size, allocator, mem, pushed, carves,
                   layoutVars, benchVars, copyVars>>

\* PoolAllocator<T> pool(cap), for a cap that new T[cap] can satisfy
InitPool ==
    /\ kind = "pool"
    /\ CHUNK_SIZE = 1
    /\ \E cap \in 1 .. MaxCap :
          /\ allocator = PoolAllocatorCtor(<<>>, cap).alloc
          /\ heap = PoolAllocatorCtor(<<>>, cap).heap
    /\ chunks = <<>>
    /\ size = 0
    /\ mem = <<>>
    /\ alive = TRUE
    /\ op = [name |-> "construct", arg |-> 0]
    /\ ret = "void"
    /\ pushed = <<>>
    /\ carves = <<>>
    /\ LayoutIdle
    /\ BenchIdle
    /\ CopyIdle

NextPool ==
    \/ \E n \in Requests : Allocate(n)
    \/ DestroyPool

SpecPool == InitPool /\ [][NextPool]_vars

\* ------------------------------------------------- AoS and SoA layouts
\* std::mt19937_64 rng(123): the generator is a deterministic state machine;
\* a full-period congruential generator on 64 states stands for it
Seed == 123
rng_seed(seed) == seed % 64
rng_next(g) == (5 * g + 3) % 64

\* dist(rng) of std::uniform_real_distribution<float> dist(-1000.f, 1000.f):
\* advances the generator once and maps its output to a float of [-1000, 1000).
\* A float is counted in float units, here one of 16 levels
dist(g) ==
    LET g1 == rng_next(g)
    IN  [val |-> ((g1 % 16) * 125) - 1000, rng |-> g1]

\* float to double: exact; a double is counted in units of a finer grid than
\* a float (2^29 times finer for 53 against 24 significand bits, 2^8 times
\* here to stay within the model checker's integers)
FloatToDouble(f) == f * (2 ^ 8)

\* the braced list evaluated right to left, as function arguments may be
AoSRecord_rtl(g) ==
    LET d1 == dist(g)
        d2 == dist(d1.rng)
        d3 == dist(d2.rng)
        d4 == dist(d3.rng)
    IN  [rec |-> [x |-> d4.val, y |-> d3.val, z |-> d2.val,
                  mass |-> FloatToDouble(d1.val)],
         rng |-> d4.rng]

\* ParticleAos{ dist(rng), dist(rng), dist(rng), dist(rng) }: the clauses of a
\* braced list are evaluated left to right; mass is a double
AoSRecord(g) ==
    LET d1 == dist(g)
        d2 == dist(d1.rng)
        d3 == dist(d2.rng)
        d4 == dist(d3.rng)
    IN  [rec |-> [x |-> d1.val, y |-> d2.val, z |-> d3.val,
                  mass |-> FloatToDouble(d4.val)],
         rng |-> d4.rng]

\* one iteration of the initialisation loop of benchmarkAoS
AoSInitStep ==
    /\ iAoS < nParticles
    /\ particlesAoS' = Append(particlesAoS, AoSRecord(rngAoS).rec)
    /\ rngAoS' = AoSRecord(rngAoS).rng
    /\ iAoS' = iAoS + 1
    /\ UNCHANGED <<nParticles, particlesSoA, rngSoA, iSoA, coreVars,
                   benchVars, copyVars>>

\* one iteration of the initialisation loop of benchmarkSoA; every field of
\* ParticlesSoA is a vector of float
SoAInitStep ==
    /\ iSoA < nParticles
    /\ LET d1 == dist(rngSoA)
           d2 == dist(d1.rng)
           d3 == dist(d2.rng)
           d4 == dist(d3.rng)
       IN  /\ particlesSoA' =
                 [x    |-> [particlesSoA.x EXCEPT ![iSoA + 1] = d1.val],
                  y    |-> [particlesSoA.y EXCEPT ![iSoA + 1] = d2.val],
                  z    |-> [particlesSoA.z EXCEPT ![iSoA + 1] = d3.val],
                  mass |-> [particlesSoA.mass EXCEPT ![iSoA + 1] = d4.val]]
           /\ rngSoA' = d4.rng
    /\ iSoA' = iSoA + 1
    /\ UNCHANGED <<nParticles, particlesAoS, rngAoS, iAoS, coreVars,
                   benchVars, copyVars>>

\* no chunked sequence or allocator exists while the layout benchmarks run
CoreIdle ==
    /\ kind = "none"
    /\ CHUNK_SIZE = 1
    /\ chunks = <<>>
    /\ size = 0
    /\ allocator = NoAllocator
    /\ heap = <<>>
    /\ mem = <<>>
    /\ alive = FALSE
    /\ op = [name |-> "construct", arg |-> 0]
    /\ ret = "void"
    /\ pushed = <<>>
    /\ carves = <<>>

\* both benchmarks entered with the same count: particles.reserve(n) and
\* rng(123) in benchmarkAoS, ParticlesSoA particles(n) (every vector resized
\* to n zeros) and rng(123) in benchmarkSoA
InitLayout ==
    /\ nParticles \in 0 .. MaxN
    /\ particlesAoS = <<>>
    /\ rngAoS = rng_seed(Seed)
    /\ iAoS = 0
    /\ particlesSoA = [x    |-> [k \in 1 .. nParticles |-> 0],
                       y    |-> [k \in 1 .. nParticles |-> 0],
                       z    |-> [k \in 1 .. nParticles |-> 0],
                       mass |-> [k \in 1 .. nParticles |-> 0]]
    /\ rngSoA = rng_seed(Seed)
    /\ iSoA = 0
    /\ CoreIdle
    /\ BenchIdle
    /\ CopyIdle

NextLayout ==
    \/ AoSInitStep
    \/ SoAInitStep

SpecLayout == InitLayout /\ [][NextLayout]_vars

\* ------------------------------------ benchmark drivers of the vector file
\* template default of CHUNK_SIZE, and the capacity of the embedded allocator
DefaultChunkSize == 64
PoolCapacity == 2048

MaxBenchN == 3
\* largest workload size n the drivers are called with
MaxRepeat == 2
\* largest repeat the drivers are called with

Drivers == {"benchmarkStdVector", "benchmarkChunkedVector",
            "benchmarkChunkedVectorPooled"}

\* the container class a driver declares as v
ContainerOf(d) ==
    IF d = "benchmarkStdVector" THEN "vector"
    ELSE IF d = "benchmarkChunkedVector" THEN "plain" ELSE "pooled"

\* address of v[index] of a std::vector whose storage reserve(n) obtained
VecAddr(index) == PtrAdd(chunks[1], index)

\* the loop test `i < repeat` holds: the repetition's container v is declared.
\* std::vector<int> v; v.reserve(n) obtains one block of n elements;
\* ChunkedVector<int> v holds nothing; ChunkedVectorPoolAllocation<int> v
\* constructs its allocator{2048}
BenchEnter ==
    /\ bpc = "loop"
    /\ bi < repeat
    /\ chunks' = IF kind = "vector" /\ benchN > 0 THEN <<NewPtr(heap)>> ELSE <<>>
    /\ heap' = IF kind = "vector"
               THEN (IF benchN > 0 THEN NewArray(heap, benchN) ELSE heap)
               ELSE IF kind = "pooled"
                    THEN PoolAllocatorCtor(heap, PoolCapacity).heap
                    ELSE heap
    /\ allocator' = IF kind = "pooled"
                    THEN PoolAllocatorCtor(heap, PoolCapacity).alloc
                    ELSE NoAllocator
    /\ size' = 0
    /\ alive' = TRUE
    /\ pushed' = <<>>
    /\ carves' = <<>>
    /\ op' = [name |-> "construct", arg |-> 0]
    /\ ret' = "void"
    /\ bk' = 0
    /\ readCount' = [j \in 0 .. (benchN - 1) |-> 0]
    /\ bpc' = "append"
    /\ UNCHANGED <<kind, CHUNK_SIZE, mem, bench, benchN, repeat, bi, oobRead,
                   layoutVars, copyVars>>

\* the loop test `i < repeat` fails: return bestTime
BenchReturn ==
    /\ bpc = "loop"
    /\ ~(bi < repeat)
    /\ bpc' = "done"
    /\ UNCHANGED <<coreVars, bench, benchN, repeat, bi, bk, readCount, oobRead,
                   layoutVars, copyVars>>

\* for (size_t k = 0; k < n; k++) v.push_back(k);  one iteration
BenchAppend ==
    /\ bpc = "append"
    /\ bk < benchN
    /\ IF kind = "vector"
       THEN /\ mem' = Store(mem, VecAddr(size), bk)
            /\ size' = (size + 1) % SizeMod
            /\ UNCHANGED <<chunks, heap, allocator, carves>>
       ELSE IF kind = "plain" THEN PlainPush(bk) ELSE PooledPush(bk)
    /\ pushed' = Append(pushed, bk)
    /\ op' = [name |-> "push_back", arg |-> bk]
    /\ ret' = "void"
    /\ bk' = (bk + 1) % SizeMod
    /\ UNCHANGED <<kind, CHUNK_SIZE, alive, bench, benchN, repeat, bi, bpc,
                   readCount, oobRead, layoutVars, copyVars>>

\* the append loop's test `k < n` fails; the scan loop declares its own k = 0
BenchAppendDone ==
    /\ bpc = "append"
    /\ ~(bk < benchN)
    /\ bk' = 0
    /\ bpc' = "scan"
    /\ UNCHANGED <<coreVars, bench, benchN, repeat, bi, readCount, oobRead,
                   layoutVars, copyVars>>

\* the index the scan loop of driver d reads, and the variable it increments:
\* benchmarkStdVector reads v[i] and runs i++ (the outer loop's variable),
\* the two chunked drivers read v[k] and run k++
ScanIndex(d) == IF d = "benchmarkStdVector" THEN bi ELSE bk
ScanAdvance(d) ==
    IF d = "benchmarkStdVector"
    THEN bi' = (bi + 1) % SizeMod /\ bk' = bk
    ELSE bk' = (bk + 1) % SizeMod /\ bi' = bi

\* one iteration of the scan loop: test k < v.size() (v.get_size()), then
\* sum += v[index], then the increment.  A read at or beyond the length has
\* no defined result: it yields any value
BenchScan ==
    /\ bpc = "scan"
    /\ bk < size
    /\ LET index == ScanIndex(bench)
       IN  /\ IF index < size
              THEN /\ ret' \in Loads(mem, IF kind = "vector" THEN VecAddr(index)
                                        ELSE ElemAddr(chunks, index))
                   /\ readCount' = [readCount EXCEPT
                                      ![index] = IF @ >= 1 THEN 2 ELSE 1]
                   /\ oobRead' = oobRead
              ELSE /\ ret' \in Values
                   /\ readCount' = readCount
                   /\ oobRead' = TRUE
           /\ op' = [name |-> "operator[]", arg |-> index]
    /\ ScanAdvance(bench)
    /\ UNCHANGED <<kind, CHUNK_SIZE, chunks, size, allocator, heap, mem, alive,
                   pushed, carves, bench, benchN, repeat, bpc,
                   layoutVars, copyVars>>

\* the scan loop's test fails: the repetition's body ends, v is destroyed
\* (std::vector releases its block), and the outer loop runs i++
BenchScanDone ==
    /\ bpc = "scan"
    /\ ~(bk < size)
    /\ heap' = IF kind = "vector" THEN DeleteAll(heap, chunks)
               ELSE IF kind = "plain" THEN PlainDtor(heap) ELSE PooledDtor(heap)
    /\ alive' = FALSE
    /\ op' = [name |-> "destroy", arg |-> 0]
    /\ ret' = "void"
    /\ bi' = (bi + 1) % SizeMod
    /\ bpc' = "loop"
    /\ UNCHANGED <<kind, CHUNK_SIZE, chunks, size, allocator, mem, pushed, carves,
                   bench, benchN, repeat, bk, readCount, oobRead,
                   layoutVars, copyVars>>

\* a driver is called with n and repeat.  benchmarkChunkedVectorPooled names
\* `repeat` without declaring it; it is given the meaning it has in the other
\* two drivers
InitBench ==
    /\ bench \in Drivers
    /\ benchN \in 0 .. MaxBenchN
    /\ repeat \in 0 .. MaxRepeat
    /\ bi = 0
    /\ bk = 0
    /\ bpc = "loop"
    /\ readCount = [j \in 0 .. (benchN - 1) |-> 0]
    /\ oobRead = FALSE
    /\ kind = ContainerOf(bench)
    /\ CHUNK_SIZE = DefaultChunkSize
    /\ chunks = <<>>
    /\ size = 0
    /\ allocator = NoAllocator
    /\ heap = <<>>
    /\ mem = <<>>
    /\ alive = FALSE
    /\ op = [name |-> "construct", arg |-> 0]
    /\ ret = "void"
    /\ pushed = <<>>
    /\ carves = <<>>
    /\ LayoutIdle
    /\ CopyIdle

NextBench ==
    \/ BenchEnter
    \/ BenchReturn
    \/ BenchAppend
    \/ BenchAppendDone
    \/ BenchScan
    \/ BenchScanDone

SpecBench == InitBench /\ [][NextBench]_vars

\* ----------------------- the pool-backed sequence as the source instantiates it
MaxDefaultPush == 2120
\* number of push_back calls explored in SpecDefault

\* v.push_back(k) with k the number of elements appended so far, as line 149
\* calls it, on a ChunkedVectorPoolAllocation<int>
PushK ==
    /\ alive
    /\ kind = "pooled"
    /\ Len(pushed) < MaxDefaultPush
    /\ PooledPush(size)
    /\ pushed' = Append(pushed, size)
    /\ op' = [name |-> "push_back", arg |-> size]
    /\ ret' = "void"
    /\ UNCHANGED <<kind, CHUNK_SIZE, alive, layoutVars, benchVars, copyVars>>

\* ChunkedVectorPoolAllocation<int> v: CHUNK_SIZE = 64, allocator{ 2048 }
InitDefault ==
    /\ kind = "pooled"
    /\ CHUNK_SIZE = DefaultChunkSize
    /\ allocator = PoolAllocatorCtor(<<>>, PoolCapacity).alloc
    /\ heap = PoolAllocatorCtor(<<>>, PoolCapacity).heap
    /\ chunks = <<>>
    /\ size = 0
    /\ mem = <<>>
    /\ alive = TRUE
    /\ op = [name |-> "construct", arg |-> 0]
    /\ ret = "void"
    /\ pushed = <<>>
    /\ carves = <<>>
    /\ LayoutIdle
    /\ BenchIdle
    /\ CopyIdle

NextDefault == PushK

SpecDefault == InitDefault /\ [][NextDefault]_vars

\* ------------- the pool-backed sequence with CHUNK_SIZE changed by the user
\* instantiations ChunkedVectorPoolAllocation<T, c>: the comment on line 86
\* lets c be modified; the allocator member stays allocator{ 2048 }
AnyChunkSizes == {1, DefaultChunkSize, PoolCapacity, PoolCapacity + 1}

InitAnyChunk ==
    /\ kind = "pooled"
    /\ CHUNK_SIZE \in AnyChunkSizes
    /\ allocator = PoolAllocatorCtor(<<>>, PoolCapacity).alloc
    /\ heap = PoolAllocatorCtor(<<>>, PoolCapacity).heap
    /\ chunks = <<>>
    /\ size = 0
    /\ mem = <<>>
    /\ alive = TRUE
    /\ op = [name |-> "construct", arg |-> 0]
    /\ ret = "void"
    /\ pushed = <<>>
    /\ carves = <<>>
    /\ LayoutIdle
    /\ BenchIdle
    /\ CopyIdle

SpecAnyChunk == InitAnyChunk /\ [][Next]_vars

\* ------------------------------------- two objects of one class, and copies
\* Neither class declares a copy constructor or a copy assignment operator:
\* the compiler-generated ones copy member by member, the std::vector<T*>
\* members element by element (the pointers, not what they point to).
CopyOf ==
    [made |-> TRUE, alive |-> TRUE, chunks |-> chunks, size |-> size,
     allocator |-> allocator]

\* the value the copy specification appends
CopyValues == {0}

MaxHeap == 4
\* number of heap blocks explored in SpecCopy

\* T second = first;  (copy construction)
CopyConstruct ==
    /\ alive
    /\ ~second.made
    /\ second' = CopyOf
    /\ op' = [name |-> "copy-construct", arg |-> 0]
    /\ ret' = "void"
    /\ UNCHANGED <<kind, CHUNK_SIZE, chunks, size, allocator, heap, mem, alive,
                   pushed, carves, layoutVars, benchVars>>

\* T second;  (PoolAllocator<T> second(capacity) for the allocator): a second
\* object constructed on its own
ConstructSecond ==
    /\ alive
    /\ ~second.made
    /\ Len(heap) < MaxHeap
    /\ IF kind = "plain"
       THEN /\ second' = [NoObject EXCEPT !.made = TRUE, !.alive = TRUE]
            /\ heap' = heap
       ELSE /\ second' = [NoObject EXCEPT
                            !.made = TRUE, !.alive = TRUE,
                            !.allocator =
                               PoolAllocatorCtor(heap, allocator.capacity).alloc]
            /\ heap' = PoolAllocatorCtor(heap, allocator.capacity).heap
    /\ op' = [name |-> "construct-second", arg |-> 0]
    /\ ret' = "void"
    /\ UNCHANGED <<kind, CHUNK_SIZE, chunks, size, allocator, mem, alive,
                   pushed, carves, layoutVars, benchVars>>

\* second = first;  (copy assignment): every member of second is overwritten
CopyAssign ==
    /\ alive
    /\ second.made
    /\ second.alive
    /\ second # CopyOf
    /\ second' = CopyOf
    /\ op' = [name |-> "copy-assign", arg |-> 0]
    /\ ret' = "void"
    /\ UNCHANGED <<kind, CHUNK_SIZE, chunks, size, allocator, heap, mem, alive,
                   pushed, carves, layoutVars, benchVars>>

\* first.push_back(value) on a chunked sequence
FirstPush(value) == kind # "pool" /\ Len(heap) < MaxHeap /\ push_back(value)

\* first.allocate(n) on an allocator
FirstAllocate(n) == kind = "pool" /\ Len(heap) < MaxHeap /\ Allocate(n)

\* second.push_back(value): push_back of the object's class, run on second
SecondPush(value) ==
    /\ kind # "pool"
    /\ second.made
    /\ second.alive
    /\ second.size < MaxPush
    /\ Len(heap) < MaxHeap
    /\ LET grow == second.size % CHUNK_SIZE = 0
           r    == allocate(second.allocator, heap, CHUNK_SIZE)
           cs   == IF ~grow THEN second.chunks
                   ELSE IF kind = "plain"
                        THEN Append(second.chunks, NewPtr(heap))
                        ELSE Append(second.chunks, r.ptr)
       IN  /\ heap' = IF ~grow THEN heap
                      ELSE IF kind = "plain" THEN NewArray(heap, CHUNK_SIZE)
                           ELSE r.heap
           /\ mem' = Store(mem, ElemAddr(cs, second.size), value)
           /\ second' = [second EXCEPT
                           !.chunks = cs,
                           !.size = (@ + 1) % SizeMod,
                           !.allocator = IF grow /\ kind = "pooled"
                                         THEN r.alloc ELSE @]
    /\ op' = [name |-> "second.push_back", arg |-> value]
    /\ ret' = "void"
    /\ UNCHANGED <<kind, CHUNK_SIZE, chunks, size, allocator, alive,
                   pushed, carves, layoutVars, benchVars>>

\* second.allocate(n) on an allocator
SecondAllocate(n) ==
    /\ kind = "pool"
    /\ second.made
    /\ second.alive
    /\ Len(heap) < MaxHeap
    /\ LET r == allocate(second.allocator, heap, n)
       IN  /\ second' = [second EXCEPT !.allocator = r.alloc]
           /\ heap' = r.heap
           /\ ret' = r.ptr
    /\ op' = [name |-> "second.allocate", arg |-> n]
    /\ UNCHANGED <<kind, CHUNK_SIZE, chunks, size, allocator, mem, alive,
                   pushed, carves, layoutVars, benchVars>>

\* second goes out of scope: the destructor of its class
DestroySecond ==
    /\ second.made
    /\ second.alive
    /\ heap' = IF kind = "plain" THEN DeleteAll(heap, second.chunks)
               ELSE PoolAllocatorDtor(heap, second.allocator)
    /\ second' = [second EXCEPT !.alive = FALSE]
    /\ op' = [name |-> "destroy-second", arg |-> 0]
    /\ ret' = "void"
    /\ UNCHANGED <<kind, CHUNK_SIZE, chunks, size, allocator, mem, alive,
                   pushed, carves, layoutVars, benchVars>>

\* one freshly constructed object of any of the three classes
InitCopy ==
    /\ \/ InitPlain
       \/ InitPooled
       \/ /\ kind = "pool"
          /\ CHUNK_SIZE = 1
          /\ \E cap \in 1 .. MaxCap :
                /\ allocator = PoolAllocatorCtor(<<>>, cap).alloc
                /\ heap = PoolAllocatorCtor(<<>>, cap).heap
    /\ chunks = <<>>
    /\ size = 0
    /\ mem = <<>>
    /\ alive = TRUE
    /\ op = [name |-> "construct", arg |-> 0]
    /\ ret = "void"
    /\ pushed = <<>>
    /\ carves = <<>>
    /\ LayoutIdle
    /\ BenchIdle
    /\ CopyIdle

NextCopy ==
    \/ \E value \in CopyValues : FirstPush(value)
    \/ \E k \in 1 .. MaxCap : FirstAllocate(k)
    \/ CopyConstruct
    \/ ConstructSecond
    \/ CopyAssign
    \/ \E value \in CopyValues : SecondPush(value)
    \/ \E k \in 1 .. MaxCap : SecondAllocate(k)
    \/ Destroy
    \/ DestroySecond

SpecCopy == InitCopy /\ [][NextCopy]_vars

\* ------------------------------------------------------------- helpers
Max(a, b) == IF a >= b THEN a ELSE b
\* ceil(a / b) for a >= 0, b >= 1
Ceil(a, b) == (a + b - 1) \div b
IsPrefix(s, t) == Len(s) <= Len(t) /\ \A i \in 1 .. Len(s) : s[i] = t[i]

\* ------------------------------------------- claims on chunked sequences
\* C1: after N push_back calls on a fresh sequence (plain or pool-backed),
\* size is N and get_size() returns it, and element i holds, and operator[](i)
\* returns, the argument of the i-th push_back call, whatever was pushed later.
C1_PushThenRead ==
    alive =>
        /\ size = Len(pushed)
        /\ \A i \in 0 .. (Len(pushed) - 1) :
              Loads(mem, ElemAddr(chunks, i)) = {pushed[i + 1]}
        /\ (op.name = "get_size" => ret = Len(pushed))
        /\ (op.name = "operator[]" => ret = pushed[op.arg + 1])

\* a pool-backed sequence that has taken a second buffer reads its first
\* element back after the last append
C1_Witness ==
    /\ alive
    /\ kind = "pooled"
    /\ Len(allocator.buffers) >= 2
    /\ Len(pushed) = MaxPush
    /\ op = [name |-> "operator[]", arg |-> 0]

\* C2: the number of chunk references is ceil(size / CHUNK_SIZE) in every
\* state; a push_back adds one chunk exactly when the size before the call is
\* a multiple of CHUNK_SIZE, and no step removes or replaces a chunk.
C2_ChunkCount ==
    /\ [](Len(chunks) = Ceil(size, CHUNK_SIZE))
    /\ [][/\ IsPrefix(chunks, chunks')
          /\ (op'.name = "push_back" /\ pushed' # pushed) =>
                Len(chunks') = Len(chunks)
                               + (IF size % CHUNK_SIZE = 0 THEN 1 ELSE 0)
          /\ (pushed' = pushed) => chunks' = chunks]_vars

\* a sequence with a partly filled last chunk after at least two full ones
C2_Witness ==
    /\ Len(chunks) >= 3
    /\ CHUNK_SIZE >= 2
    /\ size % CHUNK_SIZE # 0

\* C8: nothing is released while the sequence is alive; after its destructor
\* every block was released exactly once, through the pointer new[] returned:
\* the plain sequence releases each chunk, the pool-backed one releases
\* nothing through its chunk pointers and its allocator releases each buffer.
C8_Teardown ==
    /\ alive => \A b \in DOMAIN heap : heap[b].frees = 0 /\ heap[b].bad = 0
    /\ ~alive =>
          /\ \A b \in DOMAIN heap : heap[b].frees = 1 /\ heap[b].bad = 0
          /\ kind = "plain" =>
                /\ Len(chunks) = Len(heap)
                /\ \A i \in DOMAIN chunks : chunks[i] = Ptr(i, 0)
          /\ kind = "pooled" =>
                /\ Len(allocator.buffers) = Len(heap)
                /\ \A i \in DOMAIN allocator.buffers :
                      allocator.buffers[i] = Ptr(i, 0)

\* a destroyed pool-backed sequence that had chunks in two buffers
C8_Witness ==
    /\ ~alive
    /\ kind = "pooled"
    /\ Len(allocator.buffers) >= 2
    /\ Len(chunks) >= 3

\* C9: a read through operator[](i), i < size, leaves size, the chunk list,
\* every stored element and the allocator as they were, and a read of the
\* index read just before returns the same value.
C9_ReadIsPure ==
    [][op'.name = "operator[]" =>
          /\ UNCHANGED <<chunks, size, allocator, heap, mem, pushed, carves>>
          /\ (op.name = "operator[]" /\ op.arg = op'.arg) => ret' = ret]_vars

\* a read of an element of the second chunk
C9_Witness ==
    /\ op.name = "operator[]"
    /\ op.arg >= CHUNK_SIZE
    /\ Len(chunks) >= 2

\* --------------------------------------------- claims on the PoolAllocator
RECURSIVE SumN(_)
\* S: the sum of the sizes requested so far
SumN(cs) == IF cs = <<>> THEN 0 ELSE Head(cs).n + SumN(Tail(cs))

\* no request so far exceeded the capacity
AllFit == \A i \in DOMAIN carves : carves[i].n <= allocator.capacity

\* the carves issued from block b, as a subsequence of carves
CarvesOf(b) == SelectSeq(carves, LAMBDA c : c.ptr.blk = b)

\* W: the elements left unused at the end of the buffers that are no longer
\* the current one
Wasted ==
    LET B == Len(allocator.buffers)
        tail(k) == allocator.capacity - SumN(CarvesOf(allocator.buffers[k].blk))
        sumTo[k \in 0 .. B] == IF k = 0 THEN 0 ELSE tail(k) + sumTo[k - 1]
    IN  IF B = 0 THEN 0 ELSE sumTo[B - 1]

\* the element range [start, start + n) of a carve
Range(c) == c.ptr.off .. (c.ptr.off + c.n - 1)

C4_CarvesInsideAndDisjoint ==
    (alive /\ AllFit) =>
        /\ \A i \in DOMAIN carves :
              /\ \E k \in DOMAIN allocator.buffers :
                    allocator.buffers[k].blk = carves[i].ptr.blk
              /\ 0 <= carves[i].ptr.off
              /\ carves[i].ptr.off + carves[i].n <= heap[carves[i].ptr.blk].len
              /\ heap[carves[i].ptr.blk].len = allocator.capacity
        /\ \A i, j \in DOMAIN carves :
              (i # j /\ carves[i].ptr.blk = carves[j].ptr.blk) =>
                  Range(carves[i]) \cap Range(carves[j]) = {}

\* two non-empty carves from one buffer and a third from the next
C4_Witness ==
    /\ alive
    /\ AllFit
    /\ Len(carves) = 3
    /\ carves[1].n >= 1
    /\ carves[2].n >= 1
    /\ carves[3].n >= 1
    /\ carves[1].ptr.blk = carves[2].ptr.blk
    /\ carves[3].ptr.blk # carves[1].ptr.blk

\* C5: 0 <= offset <= capacity in every state, whatever sizes are requested.
C5_OffsetWithinCapacity ==
    alive => (0 <= allocator.offset /\ allocator.offset <= allocator.capacity)

\* C6: allocate(n) with n > capacity and offset + n not wrapping is served
\* like any other request: one buffer of exactly `capacity` elements is
\* appended, the pointer returned is its element 0, offset becomes n, and the
\* carve [0, n) runs past the end of that buffer.
C6_OversizedRequest ==
    [][(/\ op'.name = "allocate"
        /\ op'.arg > allocator.capacity
        /\ allocator.offset + op'.arg < SizeMod) =>
            /\ Len(heap') = Len(heap) + 1
            /\ heap'[Len(heap')] = [len |-> allocator.capacity, frees |-> 0, bad |-> 0]
            /\ allocator'.buffers = Append(allocator.buffers, Ptr(Len(heap'), 0))
            /\ allocator'.capacity = allocator.capacity
            /\ ret' = Ptr(Len(heap'), 0)
            /\ carves' = Append(carves, [ptr |-> ret', n |-> op'.arg])
            /\ allocator'.offset = op'.arg
            /\ ret'.off + op'.arg > heap'[ret'.blk].len]_vars

\* an oversized request made of an allocator that had already handed out part
\* of its first buffer
C6_Witness ==
    /\ alive
    /\ Len(carves) = 2
    /\ carves[1].n >= 1
    /\ carves[1].n <= allocator.capacity
    /\ op.name = "allocate"
    /\ op.arg > allocator.capacity
    /\ op.arg <= MaxReq
    /\ ret = Ptr(2, 0)
    /\ allocator.offset = op.arg

\* C7: while the allocator is alive its buffer list is non-empty and only
\* grows at the end: allocate leaves every existing buffer in place, unfreed
\* and of the same length, leaves capacity alone, and so every carve issued
\* earlier still names the same element of the same live buffer.
C7_BuffersAppendOnly ==
    /\ [](alive => Len(allocator.buffers) >= 1)
    /\ [][(alive /\ alive') =>
            /\ IsPrefix(allocator.buffers, allocator'.buffers)
            /\ allocator'.capacity = allocator.capacity
            /\ IsPrefix(heap, heap')
            /\ IsPrefix(carves, carves')
            /\ \A i \in DOMAIN carves :
                  /\ \E k \in DOMAIN allocator'.buffers :
                        allocator'.buffers[k].blk = carves[i].ptr.blk
                  /\ heap'[carves[i].ptr.blk].frees = 0]_vars

\* a third allocate call that took a second buffer after two carves of the first
C7_Witness ==
    /\ alive
    /\ Len(carves) = 3
    /\ carves[1].ptr.blk = 1
    /\ carves[2].ptr.blk = 1
    /\ carves[3].ptr.blk = 2
    /\ Len(allocator.buffers) = 2

\* ------------------------------------------------- claims on the layouts
RECURSIVE GenAfter(_)
\* the generator seeded with Seed after k draws
GenAfter(k) == IF k = 0 THEN rng_seed(Seed) ELSE rng_next(GenAfter(k - 1))
\* the float that draw number j (from 0) of a generator seeded with Seed yields
DrawNo(j) == dist(GenAfter(j)).val

\* C10: for every index i both loops have initialised, the interleaved and
\* the separated layout hold the same x, y, z and mass (the double mass of the
\* interleaved record being the float of the separated one, converted), and
\* in both layouts field k of record i holds draw number 4i + k.
C10_SameSeedSameFields ==
    /\ \A i \in 0 .. (iAoS - 1) :
          /\ particlesAoS[i + 1].x = DrawNo(4 * i)
          /\ particlesAoS[i + 1].y = DrawNo(4 * i + 1)
          /\ particlesAoS[i + 1].z = DrawNo(4 * i + 2)
          /\ particlesAoS[i + 1].mass = FloatToDouble(DrawNo(4 * i + 3))
    /\ \A i \in 0 .. (iSoA - 1) :
          /\ particlesSoA.x[i + 1] = DrawNo(4 * i)
          /\ particlesSoA.y[i + 1] = DrawNo(4 * i + 1)
          /\ particlesSoA.z[i + 1] = DrawNo(4 * i + 2)
          /\ particlesSoA.mass[i + 1] = DrawNo(4 * i + 3)
    /\ \A i \in 0 .. (iAoS - 1) :
          i < iSoA =>
              /\ particlesAoS[i + 1].x = particlesSoA.x[i + 1]
              /\ particlesAoS[i + 1].y = particlesSoA.y[i + 1]
              /\ particlesAoS[i + 1].z = particlesSoA.z[i + 1]
              /\ particlesAoS[i + 1].mass = FloatToDouble(particlesSoA.mass[i + 1])
    /\ Len(particlesAoS) = iAoS

\* both loops have run to the end over several records whose fields differ
C10_Witness ==
    /\ nParticles >= 3
    /\ iAoS = nParticles
    /\ iSoA = nParticles
    /\ particlesAoS[1].x # particlesAoS[1].mass
    /\ particlesAoS[1].x # particlesAoS[2].x
    /\ particlesSoA.x[nParticles] # particlesSoA.y[nParticles]

\* ----------------------------------------- claims on the benchmark drivers
\* C11: in each driver and each repetition the scan starts only after all n
\* appends, reads no index at or beyond the container's length, reads no index
\* twice, and has read every index 0..n-1 exactly once when the repetition
\* ends; the driver then goes on to the next repetition and returns.
C11_ScanReadsEachIndexOnce ==
    /\ bpc = "scan" => (size = benchN /\ Len(pushed) = benchN)
    /\ ~oobRead
    /\ \A j \in DOMAIN readCount : readCount[j] <= 1
    /\ (bpc \in {"loop", "done"} /\ bi > 0) =>
          \A j \in DOMAIN readCount : readCount[j] = 1
    /\ bpc = "done" => bi = repeat

\* --------------------------------- further claims on the PoolAllocator
\* C12: a call allocate(n) with n <= capacity returns, when offset + n <=
\* capacity, the element at the pre-call offset of the newest buffer and
\* creates no buffer; otherwise it appends one buffer and returns its element
\* 0; either way offset afterwards is start + n, and the carve is never taken
\* from a buffer older than the newest.
C12_Placement ==
    [][(op'.name = "allocate" /\ op'.arg <= allocator.capacity) =>
          /\ IF allocator.offset + op'.arg <= allocator.capacity
             THEN /\ allocator'.buffers = allocator.buffers
                  /\ heap' = heap
                  /\ ret' = PtrAdd(allocator.buffers[Len(allocator.buffers)],
                                   allocator.offset)
             ELSE /\ Len(heap') = Len(heap) + 1
                  /\ allocator'.buffers
                       = Append(allocator.buffers, Ptr(Len(heap'), 0))
                  /\ ret' = Ptr(Len(heap'), 0)
          /\ allocator'.offset = ret'.off + op'.arg
          /\ ret'.blk = allocator'.buffers[Len(allocator'.buffers)].blk]_vars

\* C13: for every n of size_t, allocate(n) takes a new buffer and carves at
\* offset 0 whenever offset + n, as a sum of integers, exceeds capacity; so no
\* call returns a carve that starts at a non-zero offset of an existing buffer
\* and runs past capacity, and offset never decreases while the newest buffer
\* stays the same.
C13_NoWrapAround ==
    [][op'.name = "allocate" =>
          /\ (allocator.offset + op'.arg > allocator.capacity) =>
                /\ Len(allocator'.buffers) = Len(allocator.buffers) + 1
                /\ ret'.off = 0
          /\ ~(/\ allocator'.buffers = allocator.buffers
               /\ ret'.off > 0
               /\ ret'.off + op'.arg > allocator.capacity)
          /\ (allocator'.buffers = allocator.buffers) =>
                allocator'.offset >= allocator.offset]_vars

\* ------------------------ claims on the pool-backed sequence as instantiated
\* C14: with CHUNK_SIZE = 64 and allocator capacity 2048, the k-th chunk
\* (k >= 1) is at offset 64 * ((k - 1) mod 32) of buffer number ceil(k / 32);
\* a buffer is added only by the append that creates a chunk k with
\* k mod 32 = 1, k > 1; after N appends the allocator owns
\* max(1, ceil(ceil(N / 64) / 32)) buffers.
C14_ThirtyTwoChunksPerBuffer ==
    /\ [](/\ \A k \in DOMAIN chunks :
               /\ chunks[k].off = 64 * ((k - 1) % 32)
               /\ chunks[k].blk = allocator.buffers[Ceil(k, 32)].blk
          /\ Len(chunks) = Ceil(size, 64)
          /\ Len(allocator.buffers) = Max(1, Ceil(Ceil(size, 64), 32))
          /\ allocator.capacity = 2048
          /\ \A b \in DOMAIN allocator.buffers :
               /\ allocator.buffers[b].off = 0
               /\ heap[allocator.buffers[b].blk].len = 2048
               /\ \A c \in DOMAIN allocator.buffers :
                     b # c => allocator.buffers[b].blk # allocator.buffers[c].blk)
    /\ [][Len(allocator'.buffers) # Len(allocator.buffers) =>
            /\ Len(allocator'.buffers) = Len(allocator.buffers) + 1
            /\ Len(chunks') = Len(chunks) + 1
            /\ Len(chunks') % 32 = 1
            /\ Len(chunks') > 1]_vars

\* the 34th chunk exists: it is the second chunk of the second buffer
C14_Witness ==
    /\ Len(chunks) = 34
    /\ Len(allocator.buffers) = 2
    /\ chunks[33] = Ptr(2, 0)
    /\ chunks[34] = Ptr(2, 64)
    /\ size > 33 * 64

\* ----------------------- claims on other instantiations and on copies
\* the element range [off, off + CHUNK_SIZE) of a chunk
ChunkRange(c) == c.off .. (c.off + CHUNK_SIZE - 1)

\* C15: for every CHUNK_SIZE >= 1, with the allocator capacity fixed at 2048,
\* every chunk of a pool-backed sequence lies inside one buffer the allocator
\* owns, no two chunks overlap, and every element written lies inside the
\* block it was written to.
C15_ChunksInsideBuffers ==
    alive =>
        /\ \A k \in DOMAIN chunks :
              /\ \E b \in DOMAIN allocator.buffers :
                    allocator.buffers[b].blk = chunks[k].blk
              /\ chunks[k].off >= 0
              /\ chunks[k].off + CHUNK_SIZE <= heap[chunks[k].blk].len
        /\ \A j, k \in DOMAIN chunks :
              (j # k /\ chunks[j].blk = chunks[k].blk) =>
                  ChunkRange(chunks[j]) \cap ChunkRange(chunks[k]) = {}
        /\ \A a \in DOMAIN mem : a.off < heap[a.blk].len

\* the blocks an object releases in its destructor
Owned(k, cs, a) ==
    IF k = "plain" THEN {cs[i].blk : i \in DOMAIN cs}
    ELSE {a.buffers[i].blk : i \in DOMAIN a.buffers}
\* the blocks an object holds pointers into
Held(k, cs, a) ==
    {cs[i].blk : i \in DOMAIN cs} \cup {a.buffers[i].blk : i \in DOMAIN a.buffers}

\* C16: whatever is constructed, copied, appended to and destroyed, no block
\* is released twice, no block is owned by two live objects, and no live
\* object holds a pointer into a block that was released.
C16_SingleOwner ==
    /\ \A b \in DOMAIN heap : heap[b].frees <= 1 /\ heap[b].bad = 0
    /\ (alive /\ second.alive) =>
          Owned(kind, chunks, allocator)
             \cap Owned(kind, second.chunks, second.allocator) = {}
    /\ alive =>
          \A b \in Held(kind, chunks, allocator) : heap[b].frees = 0
    /\ second.alive =>
          \A b \in Held(kind, second.chunks, second.allocator) : heap[b].frees = 0

====
